---- MODULE Spec2Model ----
(***************************************************************************)
(* A model of ddr/tools/blob_reader/blob_reader.cpp: main() reads a DDR    *)
(* blob, infers its byte order from the header, lists the string table,    *)
(* decodes the structure records, sorts them and prints the report.        *)
(*                                                                         *)
(* Memory is modelled byte by byte.  A 32-bit value is the pair            *)
(* <<high 16 bits, low 16 bits>> (TLC's integers are 32-bit signed, and    *)
(* 0xFFFFFFFF and the wrap of a uint32_t counter must be representable); a *)
(* 64-bit value is four 16-bit pieces, most significant first.  Pointers   *)
(* into blobBuffer are byte offsets from its start; NULL is -1.  size_t is *)
(* 64 bits wide (LP64): a 20-byte header plus two 32-bit sizes cannot wrap.*)
(*                                                                         *)
(* An access outside blobBuffer, and a uint16_t/uint64_t access at an      *)
(* address that is not a multiple of the type's alignment, are undefined   *)
(* behaviour.  The run then ends in pc = "undefined", which stands for     *)
(* every outcome a build can produce (a trap, garbage, a corrupted heap);  *)
(* a misaligned access may also simply work, so both outcomes are kept.    *)
(* Nothing is asserted about a run after it reached "undefined".           *)
(***************************************************************************)
EXTENDS Integers, Sequences, FiniteSets, TLC

VARIABLES
    gen,            \* ghost: the description the file was built from
    hostLE,         \* the reader is little-endian (TRUE) or big-endian
    file,           \* the bytes of the file argv[1]
    pc,             \* main's position
    rc,             \* main's return value (0, -1; 1 while running)
    errmsg,         \* what ERRMSG printed
    fault,          \* "none", "oob" or "misaligned"
    blobHdrV1,      \* the 20 bytes of the BlobHeaderV1 object
    swapsNeeded,
    blobBuffer,     \* the malloc'ed copy of the file
    currentString,  \* cursor of the string walk
    stringNum,
    printed,        \* what the string walk handed to printf, in order
    currentStruct,  \* cursor of the structure walk
    structCount,    \* 1-based uint32_t counter of the outer loop
    blobStruct,     \* the structure record being decoded
    builtStruct,
    fieldCount,     \* 1-based uint32_t counter of the field loop
    constCount,     \* 1-based uint32_t counter of the constant loop
    structs,        \* vector<Structure *>
    resolved,       \* string-table accesses made for the current structure
    report          \* what the report loop printed

vars == <<gen, hostLE, file, pc, rc, errmsg, fault, blobHdrV1, swapsNeeded, blobBuffer,
          currentString, stringNum, printed, currentStruct, structCount,
          blobStruct, builtStruct, fieldCount, constCount, structs, resolved,
          report>>

----------------------------------------------------------------------------
(* Fixed-width integers.                                                   *)

W16 == 256 * 256

\* a natural number below 2^31 as a 32-bit value
N(n) == <<n \div W16, n % W16>>

\* the value of a 32-bit value known to be below 2^16 (an index of the model)
Small(x) == x[2]

IsSmall(x) == x[1] = 0

Leq32(a, b) == a[1] < b[1] \/ (a[1] = b[1] /\ a[2] <= b[2])

Gt32(a, b) == ~Leq32(a, b)

\* x + 1 in uint32_t arithmetic
Inc32(x) ==
    IF x[2] < W16 - 1 THEN <<x[1], x[2] + 1>>
    ELSE IF x[1] < W16 - 1 THEN <<x[1] + 1, 0>>
    ELSE <<0, 0>>

Reverse(s) == [i \in 1..Len(s) |-> s[Len(s) + 1 - i]]

\* n bytes of memory at offset off
Read(buf, off, n) == SubSeq(buf, off + 1, off + n)

\* the uint16_t / uint32_t / uint64_t the reader sees in bytes b
Native16(b) == IF hostLE THEN b[1] + 256 * b[2] ELSE 256 * b[1] + b[2]

Native32(b) ==
    IF hostLE THEN <<b[3] + 256 * b[4], b[1] + 256 * b[2]>>
    ELSE <<256 * b[1] + b[2], 256 * b[3] + b[4]>>

Native64(b) ==
    IF hostLE
    THEN <<b[7] + 256 * b[8], b[5] + 256 * b[6], b[3] + 256 * b[4], b[1] + 256 * b[2]>>
    ELSE <<256 * b[1] + b[2], 256 * b[3] + b[4], 256 * b[5] + b[6], 256 * b[7] + b[8]>>

----------------------------------------------------------------------------
(* The byte-order utility.                                                 *)

\* swap_bytes(&m[i], &m[j]) on memory m (offsets from its start)
swap_bytes(m, i, j) == [m EXCEPT ![i + 1] = m[j + 1], ![j + 1] = m[i + 1]]

swap_u16(m, off) == swap_bytes(m, off, off + 1)

swap_u32(m, off) == swap_bytes(swap_bytes(m, off, off + 3), off + 1, off + 2)

----------------------------------------------------------------------------
(* The on-disk records, overlaid on raw bytes.                             *)

sizeofBlobHeaderV1 == 20
sizeofBlobStruct == 20
sizeofBlobField == 12
sizeofBlobConstant == 12
sizeofLength == 2

\* BlobHeaderV1::endian_swap that forgets structureCount
BlobHeaderV1_endian_swap_NoCount(h) ==
    swap_u32(swap_u32(swap_u32(h, 0), 8), 12)

\* BlobHeaderV1::endian_swap on the header object h
BlobHeaderV1_endian_swap(h) ==
    swap_u32(swap_u32(swap_u32(swap_u32(h, 0), 8), 12), 16)

\* BlobString::endian_swap on the entry at off
BlobString_endian_swap(m, off) == swap_u16(m, off)

BlobStruct_endian_swap(m, off) ==
    swap_u32(swap_u32(swap_u32(swap_u32(swap_u32(m, off), off + 4), off + 8),
                      off + 12), off + 16)

BlobField_endian_swap(m, off) ==
    swap_u32(swap_u32(swap_u32(m, off), off + 4), off + 8)

\* BlobConstant::endian_swap that reverses each 32-bit half of the value alone
BlobConstant_endian_swap_Halves(m, off) ==
    swap_u32(swap_u32(swap_u32(m, off), off + 4), off + 8)

\* BlobConstant::endian_swap on the record at off
BlobConstant_endian_swap(m, off) ==
    LET m1 == swap_u32(m, off)
        v  == off + 4
    IN  swap_bytes(swap_bytes(swap_bytes(swap_bytes(m1, v, v + 7), v + 1, v + 6),
                              v + 2, v + 5), v + 3, v + 4)

\* the fields of the header object
coreVersion(h) == Native32(Read(h, 0, 4))
sizeofBool(h) == h[5]
sizeofUDATA(h) == h[6]
bitfieldFormat(h) == h[7]
structDataSize(h) == Native32(Read(h, 8, 4))
stringTableDataSize(h) == Native32(Read(h, 12, 4))
structureCount(h) == Native32(Read(h, 16, 4))

\* const bool swapsNeeded = blobHdrV1.coreVersion > (uint32_t) 0xFFFF
SwapsNeededFor(h) == Gt32(coreVersion(h), <<0, W16 - 1>>)

\* a test for "no superclass" that takes 0 for the reserved value
IsAbsent_Zero(x) == x = <<0, 0>>

\* (uint32_t)-1 == blobStruct->superName
IsAbsent(x) == x = <<W16 - 1, W16 - 1>>

\* Structure::Structure()
NULL == -1

NewStructure ==
    [name |-> NULL, nameLength |-> 0, superName |-> NULL, superNameLength |-> 0,
     size |-> <<0, 0>>, fields |-> <<>>, constants |-> <<>>]

----------------------------------------------------------------------------
(* Addresses and accesses.                                                 *)

\* size_t blobLength = sizeof(blobHdrV1) + structDataSize + stringTableDataSize,
\* as <<multiples of 2^16, rest>>
BlobLength(h) ==
    LET low == sizeofBlobHeaderV1 + structDataSize(h)[2] + stringTableDataSize(h)[2]
    IN  <<structDataSize(h)[1] + stringTableDataSize(h)[1] + (low \div W16), low % W16>>

\* rb = fread(blobBuffer, 1, blobLength, fd) after rewind(fd)
FreadCount(h, f) ==
    IF BlobLength(h)[1] = 0 /\ BlobLength(h)[2] <= Len(f) THEN BlobLength(h)[2] ELSE Len(f)

\* a check of the count read that only notices an empty read
ShortRead_OnlyEmpty(h, f) == FreadCount(h, f) = 0

\* blobLength != rb
ShortRead(h, f) == BlobLength(h) # <<0, FreadCount(h, f)>>

\* stringDataStart = blobBuffer + sizeof(blobHdrV1) + structDataSize
stringDataStart == sizeofBlobHeaderV1 + Small(structDataSize(blobHdrV1))

\* stringDataEnd = stringDataStart + stringTableDataSize
stringDataEnd == stringDataStart + Small(stringTableDataSize(blobHdrV1))

\* n bytes at addr lie inside memory m
InBuf(m, addr, n) == addr >= 0 /\ addr + n <= Len(m)

\* BLOBSTRING_AT(offset): the entry's address, whether reading its length leaves
\* the buffer or is misaligned, its data pointer and its length
BLOBSTRING_AT(m, offset) ==
    LET addr == stringDataStart + Small(offset)
        oob  == ~IsSmall(offset) \/ ~InBuf(m, addr, sizeofLength)
    IN  [oob    |-> oob,
         mis    |-> ~oob /\ addr % 2 # 0,
         off    |-> offset,
         data   |-> addr + sizeofLength,
         length |-> IF oob THEN 0 ELSE Native16(Read(m, addr, 2))]

\* printf("%.*s", len, ptr): the bytes printed, and whether the read leaves the
\* buffer (it stops at len bytes or at the first NUL)
PrintString(m, ptr, len) ==
    LET avail == Len(m) - ptr
        upto  == IF len < avail THEN len ELSE avail
        nuls  == {k \in 0..(upto - 1) : m[ptr + k + 1] = 0}
        first == CHOOSE k \in nuls : \A j \in nuls : k <= j
    IN  IF nuls # {} THEN [oob |-> FALSE, text |-> Read(m, ptr, first)]
        ELSE IF len <= avail THEN [oob |-> FALSE, text |-> Read(m, ptr, len)]
        ELSE [oob |-> TRUE, text |-> <<>>]

\* strcmp(p, q) on memory m: -1, 0 or 1, and whether it reads past the buffer
strcmp(m, p, q) ==
    LET stop == {k \in 0..Len(m) :
                    \/ p + k >= Len(m)
                    \/ q + k >= Len(m)
                    \/ m[p + k + 1] # m[q + k + 1]
                    \/ m[p + k + 1] = 0}
        k    == CHOOSE x \in stop : \A y \in stop : x <= y
    IN  IF p + k >= Len(m) \/ q + k >= Len(m) THEN [oob |-> TRUE, sign |-> 0]
        ELSE [oob |-> FALSE,
              sign |-> IF m[p + k + 1] < m[q + k + 1] THEN -1
                       ELSE IF m[p + k + 1] > m[q + k + 1] THEN 1 ELSE 0]

\* bool compareStructs(const Structure *first, const Structure *second)
compareStructs(m, first, second) == strcmp(m, first.name, second.name).sign < 0

compareFaults(m, first, second) == strcmp(m, first.name, second.name).oob

----------------------------------------------------------------------------
(* main().                                                                 *)

Walking == {"structs", "fields", "consts"}

\* the run ends in undefined behaviour of the given kind
Undefined(kind) ==
    /\ pc' = "undefined"
    /\ fault' = kind

\* lines 199-218: read the header, infer the byte order, correct the header
ReadHeader ==
    /\ pc = "start"
    /\ IF Len(file) < sizeofBlobHeaderV1
       THEN /\ pc' = "exit"
            /\ rc' = -1
            /\ errmsg' = "read blob header"
            /\ blobHdrV1' = file \o [i \in 1..(sizeofBlobHeaderV1 - Len(file)) |-> 0]
            /\ UNCHANGED swapsNeeded
       ELSE LET raw == Read(file, 0, sizeofBlobHeaderV1)
            IN  /\ swapsNeeded' = SwapsNeededFor(raw)
                /\ blobHdrV1' = IF SwapsNeededFor(raw)
                                THEN BlobHeaderV1_endian_swap(raw) ELSE raw
                /\ pc' = "load"
                /\ UNCHANGED <<rc, errmsg>>
    /\ UNCHANGED <<gen, hostLE, file, fault, blobBuffer, currentString, stringNum,
                   printed, currentStruct, structCount, blobStruct, builtStruct,
                   fieldCount, constCount, structs, resolved, report>>

\* lines 238-243: malloc(blobLength) returns NULL
MallocFails ==
    /\ pc = "load"
    /\ pc' = "exit"
    /\ rc' = -1
    /\ errmsg' = "malloc blobBuffer failed"
    /\ UNCHANGED <<gen, hostLE, file, fault, blobHdrV1, swapsNeeded, blobBuffer,
                   currentString, stringNum, printed, currentStruct, structCount,
                   blobStruct, builtStruct, fieldCount, constCount, structs,
                   resolved, report>>

\* lines 236-259: copy the file into memory, check the count read
LoadFile ==
    /\ pc = "load"
    /\ IF ShortRead(blobHdrV1, file)
       THEN /\ pc' = "exit"
            /\ rc' = -1
            /\ errmsg' = "read blob data"
            /\ UNCHANGED <<blobBuffer, currentString, stringNum>>
       ELSE /\ blobBuffer' = Read(file, 0, FreadCount(blobHdrV1, file))
            /\ currentString' = stringDataStart
            /\ stringNum' = 1
            /\ pc' = "strings"
            /\ UNCHANGED <<rc, errmsg>>
    /\ UNCHANGED <<gen, hostLE, file, fault, blobHdrV1, swapsNeeded, printed,
                   currentStruct, structCount, blobStruct, builtStruct, fieldCount,
                   constCount, structs, resolved, report>>

\* a walk that takes no entry to be padded
Padding_None(length) == 0

\* const uint16_t padding = blobString->length & 1
Padding(length) == length % 2

\* currentString += blobString->length + sizeof(blobString->length) + padding
NextString(cur, length) == cur + length + sizeofLength + Padding(length)

\* lines 262-280: one iteration of the string walk
ReadString ==
    /\ pc = "strings"
    /\ currentString < stringDataEnd
    /\ UNCHANGED <<gen, hostLE, file, rc, errmsg, blobHdrV1, swapsNeeded, currentStruct,
                   structCount, blobStruct, builtStruct, fieldCount, constCount,
                   structs, resolved, report>>
    /\ IF ~InBuf(blobBuffer, currentString, sizeofLength)
       THEN /\ Undefined("oob")
            /\ UNCHANGED <<blobBuffer, currentString, stringNum, printed>>
       ELSE LET m      == IF swapsNeeded
                          THEN BlobString_endian_swap(blobBuffer, currentString)
                          ELSE blobBuffer
                length == Native16(Read(m, currentString, sizeofLength))
                data   == currentString + sizeofLength
                shown  == PrintString(m, data, length)
            IN  /\ blobBuffer' = m
                /\ \/ /\ ~shown.oob
                      /\ printed' = Append(printed,
                            [num |-> stringNum, offset |-> currentString - stringDataStart,
                             length |-> length, data |-> data, text |-> shown.text])
                      /\ currentString' = NextString(currentString, length)
                      /\ stringNum' = stringNum + 1
                      /\ UNCHANGED <<pc, fault>>
                   \/ /\ shown.oob
                      /\ Undefined("oob")
                      /\ UNCHANGED <<currentString, stringNum, printed>>
                   \/ /\ currentString % 2 # 0
                      /\ Undefined("misaligned")
                      /\ UNCHANGED <<currentString, stringNum, printed>>

\* lines 262, 294-297: the string walk ends, the structure walk is set up
StringsDone ==
    /\ pc = "strings"
    /\ ~(currentString < stringDataEnd)
    /\ currentStruct' = sizeofBlobHeaderV1
    /\ structCount' = N(1)
    /\ structs' = <<>>
    /\ pc' = "structs"
    /\ UNCHANGED <<gen, hostLE, file, rc, errmsg, fault, blobHdrV1, swapsNeeded, blobBuffer,
                   currentString, stringNum, printed, blobStruct, builtStruct,
                   fieldCount, constCount, resolved, report>>

\* the fields of the structure, field and constant records at rec
BlobStruct_nameOffset(m, rec) == Native32(Read(m, rec, 4))
BlobStruct_superName(m, rec) == Native32(Read(m, rec + 4, 4))
BlobStruct_sizeOf(m, rec) == Native32(Read(m, rec + 8, 4))
BlobStruct_fieldCount(m, rec) == Native32(Read(m, rec + 12, 4))
BlobStruct_constCount(m, rec) == Native32(Read(m, rec + 16, 4))
BlobField_declaredName(m, rec) == Native32(Read(m, rec, 4))
BlobField_declaredType(m, rec) == Native32(Read(m, rec + 4, 4))
BlobField_offset(m, rec) == Native32(Read(m, rec + 8, 4))
BlobConstant_name(m, rec) == Native32(Read(m, rec, 4))
\* *(uint64_t *)blobConst->value
BlobConstant_value(m, rec) == Native64(Read(m, rec + 4, 8))

\* while (structCount <= blobHdrV1.structureCount)
MoreStructs(count, h) == Leq32(count, structureCount(h))
\* a field loop that tests fieldCount < blobStruct->fieldCount
MoreFields_Strict(count, m, rec) ==
    Leq32(count, BlobStruct_fieldCount(m, rec)) /\ count # BlobStruct_fieldCount(m, rec)

\* while (fieldCount <= blobStruct->fieldCount)
MoreFields(count, m, rec) == Leq32(count, BlobStruct_fieldCount(m, rec))
\* while (constCount <= blobStruct->constCount)
MoreConsts(count, m, rec) == Leq32(count, BlobStruct_constCount(m, rec))

\* one entry of the log of string-table accesses
Access(what, s) == [what |-> what, off |-> s.off, data |-> s.data, length |-> s.length]

\* lines 298-320: a structure record, its name and its superclass
ReadStruct ==
    /\ pc = "structs"
    /\ MoreStructs(structCount, blobHdrV1)
    /\ UNCHANGED <<gen, hostLE, file, rc, errmsg, blobHdrV1, swapsNeeded, currentString,
                   stringNum, printed, structCount, constCount, structs, report>>
    /\ IF ~InBuf(blobBuffer, currentStruct,
                 IF swapsNeeded THEN sizeofBlobStruct ELSE 12)
       THEN /\ Undefined("oob")
            /\ UNCHANGED <<blobBuffer, currentStruct, blobStruct, builtStruct,
                           fieldCount, resolved>>
       ELSE LET m      == IF swapsNeeded
                          THEN BlobStruct_endian_swap(blobBuffer, currentStruct)
                          ELSE blobBuffer
                rec    == currentStruct
                nm     == BLOBSTRING_AT(m, BlobStruct_nameOffset(m, rec))
                absent == IsAbsent(BlobStruct_superName(m, rec))
                sp     == BLOBSTRING_AT(m, BlobStruct_superName(m, rec))
                oob    == nm.oob \/ (~absent /\ sp.oob)
                mis    == nm.mis \/ (~absent /\ sp.mis)
            IN  /\ blobBuffer' = m
                /\ blobStruct' = rec
                /\ currentStruct' = currentStruct + sizeofBlobStruct
                /\ \/ /\ ~oob
                      /\ builtStruct' =
                            [name |-> nm.data,
                             nameLength |-> nm.length,
                             superName |-> IF absent THEN NULL ELSE sp.data,
                             superNameLength |-> IF absent THEN 0 ELSE sp.length,
                             size |-> BlobStruct_sizeOf(m, rec),
                             fields |-> <<>>,
                             constants |-> <<>>]
                      /\ resolved' = resolved \o <<Access("name", nm)>>
                            \o (IF absent THEN <<>> ELSE <<Access("superName", sp)>>)
                      /\ fieldCount' = N(1)
                      /\ pc' = "fields"
                      /\ UNCHANGED fault
                   \/ /\ oob
                      /\ Undefined("oob")
                      /\ UNCHANGED <<builtStruct, fieldCount, resolved>>
                   \/ /\ ~oob /\ mis
                      /\ Undefined("misaligned")
                      /\ UNCHANGED <<builtStruct, fieldCount, resolved>>

\* line 298: the outer loop ends
StructsDone ==
    /\ pc = "structs"
    /\ ~MoreStructs(structCount, blobHdrV1)
    /\ pc' = "sort"
    /\ UNCHANGED <<gen, hostLE, file, rc, errmsg, fault, blobHdrV1, swapsNeeded, blobBuffer,
                   currentString, stringNum, printed, currentStruct, structCount,
                   blobStruct, builtStruct, fieldCount, constCount, structs,
                   resolved, report>>

\* lines 321-339: one iteration of the field loop
ReadField ==
    /\ pc = "fields"
    /\ UNCHANGED <<gen, hostLE, file, rc, errmsg, blobHdrV1, swapsNeeded, currentString,
                   stringNum, printed, structCount, blobStruct, constCount, structs,
                   report>>
    /\ IF ~InBuf(blobBuffer, blobStruct + 12, 4)
       THEN /\ Undefined("oob")
            /\ UNCHANGED <<blobBuffer, currentStruct, builtStruct, fieldCount, resolved>>
       ELSE /\ MoreFields(fieldCount, blobBuffer, blobStruct)
            /\ IF ~InBuf(blobBuffer, currentStruct, sizeofBlobField)
               THEN /\ Undefined("oob")
                    /\ UNCHANGED <<blobBuffer, currentStruct, builtStruct, fieldCount,
                                   resolved>>
               ELSE LET m   == IF swapsNeeded
                               THEN BlobField_endian_swap(blobBuffer, currentStruct)
                               ELSE blobBuffer
                        rec == currentStruct
                        nm  == BLOBSTRING_AT(m, BlobField_declaredName(m, rec))
                        ty  == BLOBSTRING_AT(m, BlobField_declaredType(m, rec))
                    IN  /\ blobBuffer' = m
                        /\ currentStruct' = currentStruct + sizeofBlobField
                        /\ \/ /\ ~nm.oob /\ ~ty.oob
                              /\ builtStruct' =
                                    [builtStruct EXCEPT !.fields = Append(@,
                                        [name |-> nm.data, nameLength |-> nm.length,
                                         type |-> ty.data, typeLength |-> ty.length,
                                         offset |-> BlobField_offset(m, rec)])]
                              /\ resolved' = resolved \o
                                    <<Access("declaredName", nm), Access("declaredType", ty)>>
                              /\ fieldCount' = Inc32(fieldCount)
                              /\ UNCHANGED <<pc, fault>>
                           \/ /\ nm.oob \/ ty.oob
                              /\ Undefined("oob")
                              /\ UNCHANGED <<builtStruct, fieldCount, resolved>>
                           \/ /\ ~nm.oob /\ ~ty.oob /\ (nm.mis \/ ty.mis)
                              /\ Undefined("misaligned")
                              /\ UNCHANGED <<builtStruct, fieldCount, resolved>>

\* lines 321, 341: the field loop ends
FieldsDone ==
    /\ pc = "fields"
    /\ InBuf(blobBuffer, blobStruct + 12, 4)
    /\ ~MoreFields(fieldCount, blobBuffer, blobStruct)
    /\ constCount' = N(1)
    /\ pc' = "consts"
    /\ UNCHANGED <<gen, hostLE, file, rc, errmsg, fault, blobHdrV1, swapsNeeded, blobBuffer,
                   currentString, stringNum, printed, currentStruct, structCount,
                   blobStruct, builtStruct, fieldCount, structs, resolved, report>>

\* lines 342-358: one iteration of the constant loop
ReadConst ==
    /\ pc = "consts"
    /\ UNCHANGED <<gen, hostLE, file, rc, errmsg, blobHdrV1, swapsNeeded, currentString,
                   stringNum, printed, structCount, blobStruct, fieldCount, structs,
                   report>>
    /\ IF ~InBuf(blobBuffer, blobStruct + 16, 4)
       THEN /\ Undefined("oob")
            /\ UNCHANGED <<blobBuffer, currentStruct, builtStruct, constCount, resolved>>
       ELSE /\ MoreConsts(constCount, blobBuffer, blobStruct)
            /\ IF ~InBuf(blobBuffer, currentStruct, sizeofBlobConstant)
               THEN /\ Undefined("oob")
                    /\ UNCHANGED <<blobBuffer, currentStruct, builtStruct, constCount,
                                   resolved>>
               ELSE LET m   == IF swapsNeeded
                               THEN BlobConstant_endian_swap(blobBuffer, currentStruct)
                               ELSE blobBuffer
                        rec == currentStruct
                        nm  == BLOBSTRING_AT(m, BlobConstant_name(m, rec))
                    IN  /\ blobBuffer' = m
                        /\ currentStruct' = currentStruct + sizeofBlobConstant
                        /\ \/ /\ ~nm.oob
                              /\ builtStruct' =
                                    [builtStruct EXCEPT !.constants = Append(@,
                                        [name |-> nm.data, nameLength |-> nm.length,
                                         value |-> BlobConstant_value(m, rec)])]
                              /\ resolved' = resolved \o <<Access("name", nm)>>
                              /\ constCount' = Inc32(constCount)
                              /\ UNCHANGED <<pc, fault>>
                           \/ /\ nm.oob
                              /\ Undefined("oob")
                              /\ UNCHANGED <<builtStruct, constCount, resolved>>
                           \/ /\ ~nm.oob /\ (nm.mis \/ (rec + 4) % 8 # 0)
                              /\ Undefined("misaligned")
                              /\ UNCHANGED <<builtStruct, constCount, resolved>>

\* lines 342, 360-361: the constant loop ends, the structure is kept
ConstsDone ==
    /\ pc = "consts"
    /\ InBuf(blobBuffer, blobStruct + 16, 4)
    /\ ~MoreConsts(constCount, blobBuffer, blobStruct)
    /\ structs' = Append(structs, builtStruct)
    /\ structCount' = Inc32(structCount)
    /\ pc' = "structs"
    /\ UNCHANGED <<gen, hostLE, file, rc, errmsg, fault, blobHdrV1, swapsNeeded, blobBuffer,
                   currentString, stringNum, printed, currentStruct, blobStruct,
                   builtStruct, fieldCount, constCount, resolved, report>>

\* what sort(structs.begin(), structs.end(), compareStructs) may leave: the
\* arrangements of v no element of which compares below an earlier one
SortedBy(m, v) ==
    LET n     == Len(v)
        perms == {p \in [1..n -> 1..n] : \A i, j \in 1..n : p[i] = p[j] => i = j}
    IN  {[i \in 1..n |-> v[p[i]]] : p \in
            {q \in perms : \A i, j \in 1..n :
                i < j => ~compareStructs(m, v[q[j]], v[q[i]])}}

\* some comparison the sort may make reads past the buffer
SortFaults(m, v) ==
    \E i, j \in 1..Len(v) : i # j /\ compareFaults(m, v[i], v[j])

\* line 363: sort the structures by name
Sort ==
    /\ pc = "sort"
    /\ IF SortFaults(blobBuffer, structs)
       THEN /\ Undefined("oob")
            /\ UNCHANGED structs
       ELSE /\ structs' \in SortedBy(blobBuffer, structs)
            /\ pc' = "report"
            /\ UNCHANGED fault
    /\ UNCHANGED <<gen, hostLE, file, rc, errmsg, blobHdrV1, swapsNeeded, blobBuffer,
                   currentString, stringNum, printed, currentStruct, structCount,
                   blobStruct, builtStruct, fieldCount, constCount, resolved, report>>

\* lines 386-408: what is printed for a field and for a constant
ShownField(m, f) ==
    [name   |-> PrintString(m, f.name, f.nameLength).text,
     type   |-> PrintString(m, f.type, f.typeLength).text,
     offset |-> f.offset]

ShownConstant(m, c) ==
    [name |-> PrintString(m, c.name, c.nameLength).text, value |-> c.value]

\* lines 367-409: what is printed for a structure
ShownStruct(m, s) ==
    [name       |-> PrintString(m, s.name, s.nameLength).text,
     hasSuper   |-> s.superName # NULL,
     superName  |-> IF s.superName = NULL THEN <<>>
                    ELSE PrintString(m, s.superName, s.superNameLength).text,
     sizeOf     |-> s.size,
     fieldCount |-> Len(s.fields),
     constCount |-> Len(s.constants),
     fields     |-> [j \in 1..Len(s.fields) |-> ShownField(m, s.fields[j])],
     constants  |-> [j \in 1..Len(s.constants) |-> ShownConstant(m, s.constants[j])]]

\* printing the structure reads past the buffer
ShowFaults(m, s) ==
    \/ PrintString(m, s.name, s.nameLength).oob
    \/ s.superName # NULL /\ PrintString(m, s.superName, s.superNameLength).oob
    \/ \E j \in 1..Len(s.fields) :
          \/ PrintString(m, s.fields[j].name, s.fields[j].nameLength).oob
          \/ PrintString(m, s.fields[j].type, s.fields[j].typeLength).oob
    \/ \E j \in 1..Len(s.constants) :
          PrintString(m, s.constants[j].name, s.constants[j].nameLength).oob

\* lines 365-417: print the report, return 0
Report ==
    /\ pc = "report"
    /\ IF \E i \in 1..Len(structs) : ShowFaults(blobBuffer, structs[i])
       THEN /\ Undefined("oob")
            /\ UNCHANGED <<rc, report>>
       ELSE /\ report' = [i \in 1..Len(structs) |-> ShownStruct(blobBuffer, structs[i])]
            /\ rc' = 0
            /\ pc' = "exit"
            /\ UNCHANGED fault
    /\ UNCHANGED <<gen, hostLE, file, errmsg, blobHdrV1, swapsNeeded, blobBuffer,
                   currentString, stringNum, printed, currentStruct, structCount,
                   blobStruct, builtStruct, fieldCount, constCount, structs, resolved>>

Next ==
    \/ ReadHeader
    \/ MallocFails
    \/ LoadFile
    \/ ReadString
    \/ StringsDone
    \/ ReadStruct
    \/ StructsDone
    \/ ReadField
    \/ FieldsDone
    \/ ReadConst
    \/ ConstsDone
    \/ Sort
    \/ Report

----------------------------------------------------------------------------
(* The files the reader is run on.  A file is built from a description:    *)
(* the header's values, the structure records with their field and         *)
(* constant records, the string table, and the byte order it is written    *)
(* in ("native": the reader's own; "reversed": the opposite one).          *)

Orders == {"native", "reversed"}

\* the bytes of a 16-, 32- and 64-bit value, little-endian or big-endian
Bytes16(n, le) ==
    IF le THEN <<n % 256, n \div 256>> ELSE <<n \div 256, n % 256>>

Bytes32(x, le) ==
    IF le THEN Bytes16(x[2], TRUE) \o Bytes16(x[1], TRUE)
    ELSE Bytes16(x[1], FALSE) \o Bytes16(x[2], FALSE)

Bytes64(v, le) ==
    IF le
    THEN Bytes16(v[4], TRUE) \o Bytes16(v[3], TRUE) \o Bytes16(v[2], TRUE) \o Bytes16(v[1], TRUE)
    ELSE Bytes16(v[1], FALSE) \o Bytes16(v[2], FALSE) \o Bytes16(v[3], FALSE) \o Bytes16(v[4], FALSE)

RECURSIVE Flatten(_)
Flatten(ss) == IF ss = <<>> THEN <<>> ELSE Head(ss) \o Flatten(Tail(ss))

\* struct BlobHeaderV1, lines 62-70
HeaderImage(h, le) ==
    Bytes32(h.coreVersion, le)
    \o <<h.sizeofBool, h.sizeofUDATA, h.bitfieldFormat, h.padding>>
    \o Bytes32(h.structDataSize, le)
    \o Bytes32(h.stringTableDataSize, le)
    \o Bytes32(h.structureCount, le)

\* struct BlobField, lines 108-111
FieldImage(f, le) ==
    Bytes32(f.declaredName, le) \o Bytes32(f.declaredType, le) \o Bytes32(f.offset, le)

\* struct BlobConstant, lines 121-124
ConstantImage(c, le) == Bytes32(c.name, le) \o Bytes64(c.value, le)

\* struct BlobStruct, lines 91-96, followed by its fields and its constants
StructImage(s, le) ==
    Bytes32(s.nameOffset, le) \o Bytes32(s.superName, le) \o Bytes32(s.sizeOf, le)
    \o Bytes32(N(Len(s.fields)), le) \o Bytes32(N(Len(s.constants)), le)
    \o Flatten([j \in 1..Len(s.fields) |-> FieldImage(s.fields[j], le)])
    \o Flatten([j \in 1..Len(s.constants) |-> ConstantImage(s.constants[j], le)])

\* struct BlobString, lines 81-83, with its padding
StringImage(e, le) == Bytes16(e.length, le) \o e.text \o e.pad

StructDataImage(ss, le) == Flatten([i \in 1..Len(ss) |-> StructImage(ss[i], le)])

StringTableImage(t, le) == Flatten([i \in 1..Len(t) |-> StringImage(t[i], le)])

\* the file of description d for a little-endian (le) or big-endian reader
FileOf(d, le) ==
    LET order == IF d.order = "native" THEN le ELSE ~le
        whole == HeaderImage(d.header, order) \o StructDataImage(d.structs, order)
                 \o StringTableImage(d.table, order)
    IN  SubSeq(whole, 1, IF d.keep < Len(whole) THEN d.keep ELSE Len(whole)) \o d.extra

\* a string-table entry with content text, padded with byte p when odd
Entry(text, p) ==
    [length |-> Len(text), text |-> text,
     pad |-> IF Len(text) % 2 = 1 THEN <<p>> ELSE <<>>]

EntrySize(e) == sizeofLength + Len(e.text) + Len(e.pad)

RECURSIVE TableSize(_)
TableSize(t) == IF t = <<>> THEN 0 ELSE EntrySize(Head(t)) + TableSize(Tail(t))

\* the offset of entry i of table t from the start of the table
EntryOffset(t, i) == TableSize(SubSeq(t, 1, i - 1))

StructSize(s) ==
    sizeofBlobStruct + sizeofBlobField * Len(s.fields)
    + sizeofBlobConstant * Len(s.constants)

RECURSIVE StructDataSizeOf(_)
StructDataSizeOf(ss) ==
    IF ss = <<>> THEN 0 ELSE StructSize(Head(ss)) + StructDataSizeOf(Tail(ss))

\* the description of a blob whose header agrees with its content
Blob(family, order, version, ss, t) ==
    [family  |-> family,
     order   |-> order,
     header  |-> [coreVersion |-> version, sizeofBool |-> 1, sizeofUDATA |-> 8,
                  bitfieldFormat |-> 2, padding |-> 0,
                  structDataSize |-> N(StructDataSizeOf(ss)),
                  stringTableDataSize |-> N(TableSize(t)),
                  structureCount |-> N(Len(ss))],
     structs |-> ss,
     table   |-> t,
     keep    |-> sizeofBlobHeaderV1 + StructDataSizeOf(ss) + TableSize(t),
     extra   |-> <<>>]

\* the largest numbers of structures, of field plus constant records of a
\* structure, of entries of a generated string table and of bytes of a
\* generated string
MaxStructs == 2
MaxRecords == 2
MaxStrings == 2
MaxStrLen == 2

\* the reference that means "no superclass"
Absent == <<W16 - 1, W16 - 1>>

\* "A", "BC", "", "DEF": entries at offsets 0, 4, 8 and 10
WalkTable ==
    <<Entry(<<65>>, 0), Entry(<<66, 67>>, 0), Entry(<<>>, 0), Entry(<<68, 69, 70>>, 0)>>

\* a reference to entry k of table t (counted round)
Ref(t, k) == N(EntryOffset(t, ((k - 1) % Len(t)) + 1))

\* structure number i with f fields and c constants over table t
StructOf(t, i, f, c) ==
    [nameOffset |-> Ref(t, i),
     superName  |-> IF i % 2 = 1 THEN Absent ELSE Ref(t, i + 3),
     sizeOf     |-> <<256 + i, 515>>,
     fields     |-> [j \in 1..f |->
                        [declaredName |-> Ref(t, i + j),
                         declaredType |-> Ref(t, i + j + 1),
                         offset       |-> <<j, 4 * j>>]],
     constants  |-> [j \in 1..c |->
                        [name  |-> Ref(t, j + 2),
                         value |-> <<258, 772 + i, 1286, 1800 + j>>]]]

Shapes == {sh \in (0..MaxRecords) \X (0..MaxRecords) : sh[1] + sh[2] <= MaxRecords}

StructLists(t) ==
    UNION {{[i \in 1..n |-> StructOf(t, i, sh[i][1], sh[i][2])] : sh \in [1..n -> Shapes]}
           : n \in 0..MaxStructs}

\* well-formed blobs of every shape
WalkBlobs ==
    {Blob("walk", o, N(1), ss, WalkTable) : o \in Orders, ss \in StructLists(WalkTable)}

\* string tables of every content, with zero and non-zero padding
Chars == {0, 65}
Pads == {0, 90}
Strings == UNION {[1..k -> Chars] : k \in 0..MaxStrLen}
Tables(p) == UNION {{[i \in 1..n |-> Entry(txt[i], p)] : txt \in [1..n -> Strings]}
                    : n \in 0..MaxStrings}

StringBlobs ==
    {Blob("strings", o, N(1), <<>>, t) : o \in Orders, t \in Tables(0) \cup Tables(90)}

\* one reference of a structure replaced
WithRef(s, where, r) ==
    CASE where = "nameOffset"   -> [s EXCEPT !.nameOffset = r]
      [] where = "superName"    -> [s EXCEPT !.superName = r]
      [] where = "declaredName" -> [s EXCEPT !.fields[1].declaredName = r]
      [] where = "declaredType" -> [s EXCEPT !.fields[1].declaredType = r]
      [] where = "name"         -> [s EXCEPT !.constants[1].name = r]

RefPlaces == {"nameOffset", "superName", "declaredName", "declaredType", "name"}

\* references that are no entry of table t: inside an entry, at and just before
\* the end of the table, far past it
StrayRefs(t) ==
    {N(1), N(2), N(TableSize(t)), N(TableSize(t) - 1), <<1, 0>>, <<W16 - 1, W16 - 2>>}

StrayBlobs ==
    {Blob("stray", o, N(1), <<WithRef(StructOf(WalkTable, 2, 1, 1), w, r)>>, WalkTable)
        : o \in Orders, w \in RefPlaces, r \in StrayRefs(WalkTable)}

\* version numbers: valid ones, zero, and ones not below 0x10000
Versions ==
    {<<0, 0>>, <<0, 1>>, <<0, 2>>, <<0, 256>>, <<0, W16 - 1>>,
     <<1, 0>>, <<256, 0>>, <<W16 - 1, W16 - 1>>}

\* a blob whose header states other sizes than its content has
Resized(d, how) ==
    LET sds  == Small(d.header.structDataSize)
        stds == Small(d.header.stringTableDataSize)
    IN  CASE how = "same"  -> d
          [] how = "odd"   -> [d EXCEPT !.header.structDataSize = N(sds + 1),
                                        !.header.stringTableDataSize = N(stds - 1)]
          [] how = "less"  -> [d EXCEPT !.header.stringTableDataSize = N(stds - 1)]
          [] how = "more"  -> [d EXCEPT !.header.stringTableDataSize = N(stds + 1)]
          [] how = "huge"  -> [d EXCEPT !.header.structDataSize = <<1, sds>>]
          [] how = "huger" -> [d EXCEPT !.header.stringTableDataSize = <<W16 - 1, W16 - 1>>]

Resizings == {"same", "odd", "less", "more", "huge", "huger"}

\* a file cut to its first n bytes, or with bytes after its end
Cut(d, n) == [d EXCEPT !.keep = IF n < d.keep THEN n ELSE d.keep]
Longer(d, bytes) == [d EXCEPT !.extra = bytes]

HeaderBlobs ==
    LET b == Blob("header", "native", N(1), <<StructOf(WalkTable, 1, 1, 1)>>, WalkTable)
    IN  {Longer(Cut(Resized([b EXCEPT !.order = o, !.header.coreVersion = v], how),
                    b.keep - drop), more)
            : o \in Orders, v \in Versions, how \in Resizings,
              drop \in {0, 1, b.keep - 10}, more \in {<<>>, <<7>>}}

\* a header that counts more or fewer structures than the struct data holds
Counted(d, n) == [d EXCEPT !.header.structureCount = n]

CountBlobs ==
    {Counted(Blob("count", o, N(1), ss, WalkTable), n)
        : o \in Orders,
          ss \in {<<>>, <<StructOf(WalkTable, 1, 1, 1)>>},
          n \in {N(0), N(1), N(2), Absent}}

\* a struct-data region stated one record short: the second record lies in
\* what the header calls the string table
OverlapBlobs ==
    {[b EXCEPT !.header.structDataSize = N(sizeofBlobStruct),
               !.header.stringTableDataSize = N(sizeofBlobStruct + TableSize(WalkTable))]
        : b \in {Blob("overlap", o, N(1),
                      <<[nameOffset |-> r, superName |-> Absent, sizeOf |-> <<257, 515>>,
                         fields |-> <<>>, constants |-> <<>>],
                        [nameOffset |-> n, superName |-> IF n = N(0) THEN N(0) ELSE Absent,
                         sizeOf |-> z, fields |-> <<>>, constants |-> <<>>]>>,
                      WalkTable)
                    : o \in Orders, r \in {N(0), N(8)}, n \in {N(0), N(2048), <<8, 0>>},
                      z \in {<<0, 0>>, <<1, 16705>>, <<16705, 256>>}}}

\* structures named by the entries of a table in every order
NamedStructs(t, p) ==
    [i \in 1..Len(p) |->
        [nameOffset |-> N(EntryOffset(t, p[i])), superName |-> Absent,
         sizeOf |-> N(i), fields |-> <<>>, constants |-> <<>>]]

\* "Zeta", "Alpha", "Mu"; "A", "AB", "B" with zero and non-zero padding;
\* "AB", "AB\001", "C"; "Mu", "Nu"
SortTables ==
    {<<Entry(<<90, 101, 116, 97>>, 0), Entry(<<65, 108, 112, 104, 97>>, 0),
       Entry(<<77, 117>>, 0)>>,
     <<Entry(<<65>>, 0), Entry(<<65, 66>>, 0), Entry(<<66>>, 0)>>,
     <<Entry(<<65>>, 90), Entry(<<65, 66>>, 0), Entry(<<66>>, 0)>>,
     <<Entry(<<65, 66>>, 0), Entry(<<65, 66, 1>>, 0), Entry(<<67>>, 0)>>,
     <<Entry(<<77, 117>>, 0), Entry(<<78, 117>>, 0)>>}

SortBlobs ==
    {Blob("sort", o, N(1), NamedStructs(t, p), t)
        : o \in Orders,
          t \in SortTables,
          p \in UNION {[1..n -> 1..3] : n \in 2..3}}

\* string tables whose last entry does not fit: its content, its padding or
\* its length field is cut off
RaggedTables ==
    {WalkTable,
     <<Entry(<<65>>, 0), Entry(<<>>, 0)>>,
     <<Entry(<<65>>, 0), [length |-> 9, text |-> <<66, 67>>, pad |-> <<>>]>>}

RaggedBlobs ==
    {[b EXCEPT !.header.stringTableDataSize = N(TableSize(b.table) - drop),
               !.keep = b.keep - drop]
        : b \in {Blob("ragged", o, N(1), ss, t)
                    : o \in Orders, t \in RaggedTables,
                      ss \in {<<>>, <<StructOf(WalkTable, 3, 0, 0)>>}},
          drop \in 0..2}

Blobs ==
    WalkBlobs \cup StringBlobs \cup StrayBlobs \cup HeaderBlobs \cup CountBlobs
    \cup OverlapBlobs \cup SortBlobs \cup RaggedBlobs

Init ==
    /\ gen \in Blobs
    /\ hostLE \in BOOLEAN
    /\ file = FileOf(gen, hostLE)
    /\ pc = "start"
    /\ rc = 1
    /\ errmsg = ""
    /\ fault = "none"
    /\ blobHdrV1 = [i \in 1..sizeofBlobHeaderV1 |-> 0]
    /\ swapsNeeded = FALSE
    /\ blobBuffer = <<>>
    /\ currentString = 0
    /\ stringNum = 0
    /\ printed = <<>>
    /\ currentStruct = 0
    /\ structCount = <<0, 0>>
    /\ blobStruct = 0
    /\ builtStruct = NewStructure
    /\ fieldCount = <<0, 0>>
    /\ constCount = <<0, 0>>
    /\ structs = <<>>
    /\ resolved = <<>>
    /\ report = <<>>

Spec == Init /\ [][Next]_vars

----------------------------------------------------------------------------
(* The claims.                                                             *)

\* the header has been read whole
HeaderRead == pc # "start" /\ Len(file) >= sizeofBlobHeaderV1

\* the header object holds the values the file was written from, the one-byte
\* fields are the file's, and the flag tells the file's byte order
DecodesHeader ==
    /\ coreVersion(blobHdrV1) = gen.header.coreVersion
    /\ structDataSize(blobHdrV1) = gen.header.structDataSize
    /\ stringTableDataSize(blobHdrV1) = gen.header.stringTableDataSize
    /\ structureCount(blobHdrV1) = gen.header.structureCount
    /\ sizeofBool(blobHdrV1) = gen.header.sizeofBool
    /\ sizeofUDATA(blobHdrV1) = gen.header.sizeofUDATA
    /\ bitfieldFormat(blobHdrV1) = gen.header.bitfieldFormat
    /\ Read(blobHdrV1, 4, 4) = Read(file, 4, 4)
    /\ swapsNeeded = (gen.order = "reversed")

ValidVersion(v) == v[1] = 0 /\ v[2] >= 1

\* C1 as stated: a header of any version below 0x10000, written in either byte
\* order, decodes to the values it was written from, with the flag set for the
\* reversed order only and the one-byte fields untouched
C1_AnyVersionBelow10000 ==
    (HeaderRead /\ gen.header.coreVersion[1] = 0) => DecodesHeader

\* C1, amended: the same for every version from 1 to 0xFFFF
C1_HeaderByteOrder ==
    (HeaderRead /\ ValidVersion(gen.header.coreVersion)) => DecodesHeader

\* C1: a reversed header of version 1 has been corrected
C1_Witness ==
    /\ pc = "load"
    /\ gen.order = "reversed"
    /\ swapsNeeded
    /\ coreVersion(blobHdrV1) = <<0, 1>>
    /\ structureCount(blobHdrV1) = <<0, 1>>
    /\ Read(file, 16, 4) # Read(blobHdrV1, 16, 4)

\* the file holds at least blobLength bytes; exactly blobLength bytes
Fits == BlobLength(blobHdrV1)[1] = 0 /\ BlobLength(blobHdrV1)[2] <= Len(file)
Exact == BlobLength(blobHdrV1) = <<0, Len(file)>>

\* the run is past the length check, still going or ended
Decoding ==
    pc \in {"strings", "structs", "fields", "consts", "sort", "report", "undefined"}
    \/ rc = 0

NothingDecoded ==
    blobBuffer = <<>> /\ printed = <<>> /\ structs = <<>> /\ resolved = <<>> /\ report = <<>>

Rejected == pc = "exit" /\ rc = -1 /\ NothingDecoded

DataOf(ref) == stringDataStart + Small(ref) + sizeofLength

\* the start of structure record i when the records before it are laid out
\* by their own counts: 20 + 12 * fieldCount + 12 * constCount bytes each
RECURSIVE RecordAt(_, _)
RecordAt(m, i) ==
    IF i = 1 THEN sizeofBlobHeaderV1
    ELSE LET rec == RecordAt(m, i - 1)
         IN  rec + sizeofBlobStruct
                 + sizeofBlobField * Small(BlobStruct_fieldCount(m, rec))
                 + sizeofBlobConstant * Small(BlobStruct_constCount(m, rec))

\* field j of s was decoded from the j-th record after the structure record
FieldFrom(m, s, rec, j) ==
    LET at == rec + sizeofBlobStruct + sizeofBlobField * (j - 1)
    IN  /\ s.fields[j].name = DataOf(BlobField_declaredName(m, at))
        /\ s.fields[j].type = DataOf(BlobField_declaredType(m, at))
        /\ s.fields[j].offset = BlobField_offset(m, at)

\* constant j of s was decoded from the j-th record after the f field records
ConstantFrom(m, s, rec, f, j) ==
    LET at == rec + sizeofBlobStruct + sizeofBlobField * f + sizeofBlobConstant * (j - 1)
    IN  /\ s.constants[j].name = DataOf(BlobConstant_name(m, at))
        /\ s.constants[j].value = BlobConstant_value(m, at)

\* s is what the record at rec and the records after it say
DecodedFrom(m, s, rec) ==
    LET f == BlobStruct_fieldCount(m, rec)
        c == BlobStruct_constCount(m, rec)
    IN  /\ s.name = DataOf(BlobStruct_nameOffset(m, rec))
        /\ s.size = BlobStruct_sizeOf(m, rec)
        /\ N(Len(s.fields)) = f
        /\ N(Len(s.constants)) = c
        /\ \A j \in 1..Len(s.fields) : FieldFrom(m, s, rec, j)
        /\ \A j \in 1..Len(s.constants) : ConstantFrom(m, s, rec, Len(s.fields), j)

\* C2: every structure kept holds exactly the fieldCount fields and constCount
\* constants of its record, decoded in on-disk order from the records that
\* follow it; the cursor moves 20 + 12f + 12c bytes per structure, so each
\* iteration starts at the first byte of the next record; inside a structure
\* the cursor is 12 bytes past the start for every field and constant decoded
C2_CursorDiscipline ==
    pc \in Walking \cup {"sort"} =>
        LET m    == blobBuffer
            done == Len(structs)
        IN  /\ structCount = N(done + 1)
            /\ \A i \in 1..done : DecodedFrom(m, structs[i], RecordAt(m, i))
            /\ pc \in {"structs", "sort"} => currentStruct = RecordAt(m, done + 1)
            /\ pc \in {"fields", "consts"} =>
                  /\ blobStruct = RecordAt(m, done + 1)
                  /\ currentStruct = blobStruct + sizeofBlobStruct
                        + sizeofBlobField * Len(builtStruct.fields)
                        + sizeofBlobConstant * Len(builtStruct.constants)
                  /\ \A j \in 1..Len(builtStruct.fields) :
                        FieldFrom(m, builtStruct, blobStruct, j)
                  /\ \A j \in 1..Len(builtStruct.constants) :
                        ConstantFrom(m, builtStruct, blobStruct, Len(builtStruct.fields), j)
            /\ pc = "fields" =>
                  /\ fieldCount = N(Len(builtStruct.fields) + 1)
                  /\ builtStruct.constants = <<>>
                  /\ InBuf(m, blobStruct + 12, 4) =>
                        Leq32(N(Len(builtStruct.fields)), BlobStruct_fieldCount(m, blobStruct))
            /\ pc = "consts" =>
                  /\ constCount = N(Len(builtStruct.constants) + 1)
                  /\ N(Len(builtStruct.fields)) = BlobStruct_fieldCount(m, blobStruct)
                  /\ InBuf(m, blobStruct + 16, 4) =>
                        Leq32(N(Len(builtStruct.constants)), BlobStruct_constCount(m, blobStruct))

\* C2: a byte-reversed structure with one field and one constant was decoded
\* and the next structure's record has been read
C2_Witness ==
    /\ pc = "fields"
    /\ swapsNeeded
    /\ Len(structs) = 1
    /\ Len(structs[1].fields) = 1
    /\ Len(structs[1].constants) = 1
    /\ blobStruct = sizeofBlobHeaderV1 + sizeofBlobStruct + sizeofBlobField + sizeofBlobConstant

\* the superclass of s is what the superName sup of its record says: none for
\* 0xFFFFFFFF, the entry at that offset of the string table otherwise
SuperFrom(s, sup) ==
    IF sup = <<W16 - 1, W16 - 1>>
    THEN s.superName = NULL /\ s.superNameLength = 0
    ELSE s.superName = DataOf(sup)

\* the number of accesses of the log made for a superclass
SuperAccesses == Cardinality({k \in 1..Len(resolved) : resolved[k].what = "superName"})

\* C5: a structure whose corrected superName is 0xFFFFFFFF has no superclass
\* (NULL, length 0) and no string-table access was made for it; for any other
\* superName the name and the length are those read at that offset
C5_AbsentSuperclass ==
    pc \in Walking \cup {"sort"} =>
        LET m    == blobBuffer
            done == Len(structs)
        IN  /\ \A i \in 1..done :
                  SuperFrom(structs[i], BlobStruct_superName(m, RecordAt(m, i)))
            /\ pc \in {"fields", "consts"} =>
                  SuperFrom(builtStruct, BlobStruct_superName(m, blobStruct))
            /\ SuperAccesses =
                  Cardinality({i \in 1..done : structs[i].superName # NULL})
                  + (IF pc \in {"fields", "consts"} /\ builtStruct.superName # NULL
                     THEN 1 ELSE 0)
            /\ (pc = "fields" /\ builtStruct.fields = <<>>) =>
                  LET sup  == BlobStruct_superName(m, blobStruct)
                      last == resolved[Len(resolved)]
                  IN  IF sup = <<W16 - 1, W16 - 1>>
                      THEN /\ last.what = "name"
                           /\ last.off = BlobStruct_nameOffset(m, blobStruct)
                      ELSE /\ last.what = "superName"
                           /\ last.off = sup
                           /\ builtStruct.superNameLength = last.length
                           /\ last.length =
                                 Native16(Read(m, stringDataStart + Small(sup), sizeofLength))

\* C5: a byte-reversed blob was decoded into a structure without a superclass
\* and one with a superclass
C5_Witness ==
    /\ pc = "sort"
    /\ swapsNeeded
    /\ Len(structs) = 2
    /\ structs[1].superName = NULL
    /\ structs[1].superNameLength = 0
    /\ structs[2].superName # NULL
    /\ SuperAccesses = 1

\* the bytes of s before its first zero byte: what printf("%.*s") shows of s
RECURSIVE UpToNul(_)
UpToNul(s) ==
    IF s = <<>> \/ Head(s) = 0 THEN <<>> ELSE <<Head(s)>> \o UpToNul(Tail(s))

\* the n bytes of buf from address off on, as far as buf holds them
Held(buf, off, n) == Read(buf, off, IF off + n <= Len(buf) THEN n ELSE Len(buf) - off)

\* where the walk goes from an entry at offset o with length L
After(o, L) == o + 2 + L + (L % 2)

\* the length field of the file at address at, byte-order-corrected
CorrectedLength(at) ==
    LET raw == Read(file, at, sizeofLength)
    IN  Native16(IF swapsNeeded THEN Reverse(raw) ELSE raw)

\* the description has a string table of back-to-back well-formed entries
\* that starts and ends where the header says, in a file that holds it all
BackToBack(d) ==
    /\ ValidVersion(d.header.coreVersion)
    /\ d.header.structDataSize = N(StructDataSizeOf(d.structs))
    /\ d.header.stringTableDataSize = N(TableSize(d.table))
    /\ d.keep = sizeofBlobHeaderV1 + StructDataSizeOf(d.structs) + TableSize(d.table)
    /\ \A i \in 1..Len(d.table) :
          /\ d.table[i].length = Len(d.table[i].text)
          /\ Len(d.table[i].pad) = d.table[i].length % 2

\* the string walk is over and the run was not rejected
Walked == pc \in Walking \cup {"sort", "report", "undefined"} \/ rc = 0

\* C8: the string walk begins at offset 0 and goes from an entry at offset o
\* with corrected length L to o + 2 + L + (L mod 2); the content of an entry
\* is the L bytes after its length field (shown up to its first zero byte),
\* never the padding; an entry of length 0 takes 2 bytes; every offset visited
\* is even; over back-to-back well-formed entries the walk visits exactly the
\* entry starts and stops exactly at the end of the region
C8_StringWalk ==
    /\ \A k \in 1..Len(printed) :
          LET e  == printed[k]
              at == stringDataStart + e.offset
          IN  /\ e.num = k
              /\ e.offset = IF k = 1 THEN 0
                            ELSE After(printed[k - 1].offset, printed[k - 1].length)
              /\ e.offset % 2 = 0
              /\ e.length = CorrectedLength(at)
              /\ e.data = at + sizeofLength
              /\ e.text = UpToNul(Held(file, at + sizeofLength, e.length))
              /\ Len(e.text) <= e.length
              /\ e.length = 0 => (e.text = <<>> /\ After(e.offset, e.length) = e.offset + 2)
    /\ pc = "strings" =>
          /\ stringNum = Len(printed) + 1
          /\ currentString = stringDataStart +
                (IF printed = <<>> THEN 0
                 ELSE After(printed[Len(printed)].offset, printed[Len(printed)].length))
    /\ BackToBack(gen) =>
          /\ Len(printed) <= Len(gen.table)
          /\ \A k \in 1..Len(printed) :
                /\ printed[k].offset = EntryOffset(gen.table, k)
                /\ printed[k].text = UpToNul(gen.table[k].text)
          /\ Walked => (Len(printed) = Len(gen.table) /\ currentString = stringDataEnd)

\* C8: a byte-reversed table with an entry of odd length, padded with a
\* non-zero byte, and an empty entry was walked to its end
C8_Witness ==
    /\ pc = "structs"
    /\ swapsNeeded
    /\ Len(printed) = 2
    /\ printed[1].length = 1
    /\ printed[1].text = <<65>>
    /\ gen.table[1].pad = <<90>>
    /\ printed[2].offset = 4
    /\ printed[2].length = 0
    /\ currentString = stringDataEnd
    /\ currentString = printed[2].data

\* ref is the offset of an entry of table t; the content of that entry
IsEntry(t, ref) == ref[1] = 0 /\ \E i \in 1..Len(t) : EntryOffset(t, i) = ref[2]
TextAt(t, ref) == t[CHOOSE i \in 1..Len(t) : EntryOffset(t, i) = ref[2]].text

\* the description is a blob whose header agrees with its content, whose
\* string table is made of whole entries and whose references are all entries
Consistent(d) ==
    /\ d.header.structDataSize = N(StructDataSizeOf(d.structs))
    /\ d.header.stringTableDataSize = N(TableSize(d.table))
    /\ d.header.structureCount = N(Len(d.structs))
    /\ d.keep = sizeofBlobHeaderV1 + StructDataSizeOf(d.structs) + TableSize(d.table)
    /\ d.extra = <<>>
    /\ \A i \in 1..Len(d.table) :
          /\ d.table[i].length = Len(d.table[i].text)
          /\ Len(d.table[i].pad) = d.table[i].length % 2
    /\ \A i \in 1..Len(d.structs) :
          LET s == d.structs[i]
          IN  /\ IsEntry(d.table, s.nameOffset)
              /\ s.superName = Absent \/ IsEntry(d.table, s.superName)
              /\ \A j \in 1..Len(s.fields) :
                    /\ IsEntry(d.table, s.fields[j].declaredName)
                    /\ IsEntry(d.table, s.fields[j].declaredType)
              /\ \A j \in 1..Len(s.constants) : IsEntry(d.table, s.constants[j].name)

\* what a structure of the description says: names as byte strings
Written(t, s) ==
    [name      |-> TextAt(t, s.nameOffset),
     super     |-> IF s.superName = Absent THEN <<"none">>
                   ELSE <<"some", TextAt(t, s.superName)>>,
     size      |-> s.sizeOf,
     fields    |-> [j \in 1..Len(s.fields) |->
                       [name   |-> TextAt(t, s.fields[j].declaredName),
                        type   |-> TextAt(t, s.fields[j].declaredType),
                        offset |-> s.fields[j].offset]],
     constants |-> [j \in 1..Len(s.constants) |->
                       [name  |-> TextAt(t, s.constants[j].name),
                        value |-> s.constants[j].value]]]

\* what a decoded structure says: its slices of the buffer as byte strings
Decoded(m, s) ==
    [name      |-> Held(m, s.name, s.nameLength),
     super     |-> IF s.superName = NULL THEN <<"none">>
                   ELSE <<"some", Held(m, s.superName, s.superNameLength)>>,
     size      |-> s.size,
     fields    |-> [j \in 1..Len(s.fields) |->
                       [name   |-> Held(m, s.fields[j].name, s.fields[j].nameLength),
                        type   |-> Held(m, s.fields[j].type, s.fields[j].typeLength),
                        offset |-> s.fields[j].offset]],
     constants |-> [j \in 1..Len(s.constants) |->
                       [name  |-> Held(m, s.constants[j].name, s.constants[j].nameLength),
                        value |-> s.constants[j].value]]]

\* the file of the description, in the order it was written in, decodes to
\* the structures of the description: the run is not rejected, no structure
\* is decoded from bytes outside the buffer, the structures decoded so far are
\* the first ones written, and all of them are there when the walk is over
DecodesAsWritten ==
    /\ pc = "exit" => (rc = 0 \/ errmsg = "malloc blobBuffer failed")
    /\ (pc = "undefined" /\ fault = "oob") => Len(structs) = Len(gen.structs)
    /\ pc \in Walking \cup {"sort"} =>
          /\ Len(structs) <= Len(gen.structs)
          /\ \A i \in 1..Len(structs) :
                Decoded(blobBuffer, structs[i]) = Written(gen.table, gen.structs[i])
    /\ pc = "sort" => Len(structs) = Len(gen.structs)

C3_BoundsSafety ==
    /\ fault # "oob"
    /\ pc = "undefined" => fault = "misaligned"

\* a <= b in the byte-wise lexicographic order of byte strings
RECURSIVE LexLeq(_, _)
LexLeq(a, b) ==
    IF a = <<>> THEN TRUE
    ELSE IF b = <<>> THEN FALSE
    ELSE IF Head(a) # Head(b) THEN Head(a) < Head(b)
    ELSE LexLeq(Tail(a), Tail(b))

\* the name slice of a decoded structure: its nameLength content bytes
NameSlice(s) == Held(blobBuffer, s.name, s.nameLength)

\* the run is at or past the sort
AllDecoded == structCount # <<0, 0>> /\ ~MoreStructs(structCount, blobHdrV1)

\* C6 as stated: the structures handed to the renderer are the decoded ones,
\* ordered by byte-wise lexicographic comparison of their name slices, whatever
\* follows the slices in the string table; the sort always gets that far
C6_SortedByNameSlice ==
    /\ pc = "report" =>
          /\ \A i, j \in 1..Len(structs) :
                i < j => LexLeq(NameSlice(structs[i]), NameSlice(structs[j]))
          /\ \E p \in Permutations(1..Len(structs)) :
                \A i \in 1..Len(structs) :
                    DecodedFrom(blobBuffer, structs[p[i]], RecordAt(blobBuffer, i))
    /\ (pc = "undefined" /\ AllDecoded /\ report = <<>>) =>
          \E i \in 1..Len(structs) : ShowFaults(blobBuffer, structs[i])

\* C9 as stated: for every structureCount the outer loop makes exactly that
\* many iterations and then ends, the inner loops likewise for every
\* fieldCount and constCount, and no loop counter wraps to 0
C9_ExactIterations ==
    /\ pc \in Walking => structCount # <<0, 0>>
    /\ pc = "fields" => fieldCount # <<0, 0>>
    /\ pc = "consts" => constCount # <<0, 0>>
    /\ (pc \in {"sort", "report"} \/ rc = 0) =>
          N(Len(structs)) = structureCount(blobHdrV1)
    /\ (pc = "undefined" /\ Len(printed) = stringNum - 1 /\ stringNum > 0
        /\ currentString >= stringDataEnd) =>
          N(Len(structs)) = structureCount(blobHdrV1)

\* offset off of the string table was visited by the string walk
Visited(off) == \E k \in 1..Len(printed) : N(printed[k].offset) = off

\* C10 as stated: the length read when a reference (to an even offset, where
\* a length field can lie) is resolved is the file's length field at that
\* offset, byte-order-corrected if and only if swaps are needed and the string
\* walk visited the offset; resolving the same offset again yields the same
\* length
C10_SwapExactlyOnce ==
    /\ \A k \in 1..Len(resolved) :
          LET r   == resolved[k]
              raw == Read(file, r.data - sizeofLength, sizeofLength)
          IN  r.off[2] % 2 = 0 =>
                 r.length = Native16(IF swapsNeeded /\ Visited(r.off)
                                     THEN Reverse(raw) ELSE raw)
    /\ \A k, l \in 1..Len(resolved) :
          resolved[k].off = resolved[l].off => resolved[k].length = resolved[l].length

====
